---- MODULE Spec2Model ----
(***************************************************************************)
(* Model of the SEN5x driver (sen5x-rs): the CRC-8 of crc.rs, the driver   *)
(* session of sen5x.rs (construction, the two write-only commands, the six *)
(* reading commands) and the f32 scaling of measurement().                 *)
(*                                                                         *)
(* Representation of machine values (TLC integers are 32 bits wide):       *)
(*   u8, u16  naturals, reduced modulo 2^8 / 2^16 where the code can wrap   *)
(*   u64      8 bytes, most significant first                              *)
(*   f32      [m, e], the value m * 2^e with 2^23 <= m < 2^24, or m = 0    *)
(***************************************************************************)
EXTENDS Integers, Sequences, FiniteSets, TLC

VARIABLES
    is_running,   \* Sen5x.is_running
    address,      \* Sen5x.address
    bus,          \* what the last call did on the i2c handle and the delay, in order
    buf,          \* the local receive buffer of the last call, as the call left it
    op,           \* the public operation called last ("none" after construction)
    ret,          \* what that call returned
    wr,           \* outcome the transport gave to the opcode write of the last call
    rd,           \* outcome the transport gave to the read of the last call
    calls,        \* number of public calls made on the session
    crc_in,       \* argument of the crc() call of the checksum specification
    crc_out       \* its result, -1 before the call

vars == <<is_running, address, bus, buf, op, ret, wr, rd, calls, crc_in, crc_out>>

\* Longest sequence of public calls explored on one session.
MaxCalls == 2

Byte == 0..255

----------------------------------------------------------------------------
(* Bit operations on bytes.                                                *)

RECURSIVE Xor8(_, _)
Xor8(a, b) ==
    IF a = 0 THEN b
    ELSE IF b = 0 THEN a
    ELSE (((a % 2) + (b % 2)) % 2) + 2 * Xor8(a \div 2, b \div 2)

RECURSIVE Or8(_, _)
Or8(a, b) ==
    IF a = 0 THEN b
    ELSE IF b = 0 THEN a
    ELSE (IF a % 2 = 1 \/ b % 2 = 1 THEN 1 ELSE 0) + 2 * Or8(a \div 2, b \div 2)

----------------------------------------------------------------------------
(* crc.rs                                                                  *)

\* The inner loop body of crc(), lines 6-10, as a wrong implementation
\* would have it: the polynomial is XORed in when the top bit is clear.
crc_shift_inverted(c) ==
    IF (c \div 128) % 2 = 0 THEN Xor8((c * 2) % 256, 49) ELSE (c * 2) % 256

\* One iteration of `for _ in 0..8`: test bit 7, shift left in 8 bits,
\* XOR 0x31 when the bit was set.
crc_shift(c) ==
    IF (c \div 128) % 2 = 0 THEN (c * 2) % 256 ELSE Xor8((c * 2) % 256, 49)

RECURSIVE crc_bits(_, _)
crc_bits(c, n) == IF n = 0 THEN c ELSE crc_bits(crc_shift(c), n - 1)

RECURSIVE crc_bytes(_, _)
crc_bytes(c, data) ==
    IF data = <<>> THEN c
    ELSE crc_bytes(crc_bits(Xor8(c, Head(data)), 8), Tail(data))

\* pub(crate) fn crc(data: &[u8]) -> u8
crc(data) == crc_bytes(255, data)

----------------------------------------------------------------------------
(* Results: Result<T, Error<E>> with Error::I2c(e) and Error::Crc.         *)

Ok(v) == [kind |-> "Ok", val |-> v]
OkUnit == Ok(<<>>)
Err_I2c(e) == [kind |-> "I2c", val |-> <<e>>]
Err_Crc == [kind |-> "Crc", val |-> <<>>]

\* Error values the bus transport can report.
TransportErrors == {"NoAcknowledge", "Bus"}

----------------------------------------------------------------------------
(* Command table (crate::commands): opcode, settle delay in ms, allowed    *)
(* while running.  The table is static; the spec fixes its shape only, the *)
(* values are those of the SEN5x command set.                              *)

Commands ==
    {"StartMeasurement", "Reinit", "GetSerialNumber", "ReadProductName",
     "ReadFirmwareVersion", "ReadMeasurement", "GetReadDataReadyStatus"}

as_tuple(cmd) ==
    CASE cmd = "StartMeasurement"       -> <<33, 50, TRUE>>       \* 0x0021
      [] cmd = "Reinit"                 -> <<54020, 100, FALSE>>  \* 0xD304
      [] cmd = "GetSerialNumber"        -> <<53299, 20, TRUE>>    \* 0xD033
      [] cmd = "ReadProductName"        -> <<53268, 20, TRUE>>    \* 0xD014
      [] cmd = "ReadFirmwareVersion"    -> <<53504, 20, TRUE>>    \* 0xD100
      [] cmd = "ReadMeasurement"        -> <<964, 20, TRUE>>      \* 0x03C4
      [] cmd = "GetReadDataReadyStatus" -> <<514, 20, TRUE>>      \* 0x0202

----------------------------------------------------------------------------
(* Buffers and the bus.                                                    *)

\* Rust's 0-based indexing of a slice.
At(b, i) == b[i + 1]

\* let mut buf = [0; n];
Zeros(n) == [i \in 1..n |-> 0]

\* u16::from_be_bytes([hi, lo])
from_be_bytes(hi, lo) == hi * 256 + lo

\* The three kinds of entry of the bus log.
BusWrite(addr, command) == <<"write", addr, command \div 256, command % 256>>
BusDelay(ms) == <<"delay_ms", ms>>
BusRead(addr, n) == <<"read", addr, n>>

\* TRUE iff every (high, low, checksum) group of a frame carries the CRC of
\* its two data bytes.
FrameValid(data) ==
    \A k \in 0..((Len(data) \div 3) - 1) :
        crc(<<At(data, 3 * k), At(data, 3 * k + 1)>>) = At(data, 3 * k + 2)

\* sensirion_i2c::read_words_with_crc as used at sen5x.rs:173: the bus read,
\* then the validation of every group of the received bytes.  r is what the
\* transport answers, rx what the buffer holds afterwards.
read_words_with_crc(r, rx) ==
    IF r # "ok" THEN Err_I2c(r)
    ELSE IF ~FrameValid(rx) THEN Err_Crc
    ELSE OkUnit

----------------------------------------------------------------------------
(* sen5x.rs: construction.                                                 *)

_SEN5X_I2C_ADDRESS == 105

\* Sen5x::new
new == [is_running |-> FALSE, address |-> _SEN5X_I2C_ADDRESS]

\* Sen5x::with_i2c_address
with_i2c_address(a) == [is_running |-> FALSE, address |-> a]

----------------------------------------------------------------------------
(* sen5x.rs: the private helpers.  w is the outcome of the opcode write.   *)

\* write_command that applies the settle delay even when the write failed.
write_command_delay_always(addr, cmd, w) ==
    LET t == as_tuple(cmd) IN
    [res |-> IF w # "ok" THEN Err_I2c(w) ELSE OkUnit,
     bus |-> <<BusWrite(addr, t[1]), BusDelay(t[2])>>]

\* fn write_command(&mut self, cmd: Command)
write_command(addr, cmd, w) ==
    LET t == as_tuple(cmd) IN
    IF w # "ok"
    THEN [res |-> Err_I2c(w), bus |-> <<BusWrite(addr, t[1])>>]
    ELSE [res |-> OkUnit, bus |-> <<BusWrite(addr, t[1]), BusDelay(t[2])>>]

\* delayed_read_cmd that reads a second time when the read reported an error.
delayed_read_cmd_retry(addr, cmd, data, w, r, rx) ==
    LET wc == write_command(addr, cmd, w) IN
    IF wc.res.kind # "Ok"
    THEN [res |-> wc.res, bus |-> wc.bus, data |-> data]
    ELSE [res |-> OkUnit,
          bus |-> IF read_words_with_crc(r, rx).kind = "Ok"
                  THEN Append(wc.bus, BusRead(addr, Len(data)))
                  ELSE wc.bus \o <<BusRead(addr, Len(data)), BusRead(addr, Len(data))>>,
          data |-> rx]

\* fn delayed_read_cmd(&mut self, cmd: Command, data: &mut [u8])
\* The result of read_words_with_crc is bound to `_` and dropped: the
\* function returns Ok(()) whatever the read reported.
delayed_read_cmd(addr, cmd, data, w, r, rx) ==
    LET wc == write_command(addr, cmd, w) IN
    IF wc.res.kind # "Ok"
    THEN [res |-> wc.res, bus |-> wc.bus, data |-> data]
    ELSE LET dropped == read_words_with_crc(r, rx) IN
         [res |-> OkUnit,
          bus |-> Append(wc.bus, BusRead(addr, Len(data))),
          data |-> rx]

----------------------------------------------------------------------------
(* u64 arithmetic of serial_number: 8 bytes, most significant first.       *)

\* u64::from(b) for a u8
u64_from(b) == <<0, 0, 0, 0, 0, 0, 0, b>>

\* x << k for k a multiple of 8; bits shifted beyond bit 63 are lost.
Shl64(x, k) == [i \in 1..8 |-> IF i + (k \div 8) <= 8 THEN x[i + (k \div 8)] ELSE 0]

\* x | y
Or64(x, y) == [i \in 1..8 |-> Or8(x[i], y[i])]

----------------------------------------------------------------------------
(* f32 arithmetic of measurement: [m, e] is m * 2^e, m = 0 or              *)
(* 2^23 <= m < 2^24.  No value of the driver is subnormal or overflows.    *)

F32Zero == [m |-> 0, e |-> 0]

RECURSIVE F32Normalize(_, _)
F32Normalize(m, e) ==
    IF m = 0 THEN F32Zero
    ELSE IF m < 8388608 THEN F32Normalize(2 * m, e - 1)
    ELSE [m |-> m, e |-> e]

\* `x as f32` for a u16, and the literals 10f32, 100f32, 200f32: exact.
u16_as_f32(x) == F32Normalize(x, 0)

\* Round to nearest, ties to even: q is the truncated 24-bit quotient, r the
\* remainder left of the divisor d.
F32Round(q, r, d, e) ==
    LET up == (2 * r > d) \/ (2 * r = d /\ q % 2 = 1)
        m  == IF up THEN q + 1 ELSE q
    IN IF m = 16777216 THEN [m |-> 8388608, e |-> e + 1] ELSE [m |-> m, e |-> e]

\* Binary long division: q gains one bit per step until it has 24.
RECURSIVE F32DivBits(_, _, _, _)
F32DivBits(q, r, d, e) ==
    IF q >= 8388608 THEN F32Round(q, r, d, e)
    ELSE IF 2 * r >= d THEN F32DivBits(2 * q + 1, 2 * r - d, d, e - 1)
    ELSE F32DivBits(2 * q, 2 * r, d, e - 1)

\* a / b in f32, b nonzero
F32Div(a, b) ==
    IF a.m = 0 THEN F32Zero
    ELSE IF a.m >= b.m THEN F32DivBits(1, a.m - b.m, b.m, a.e - b.e)
    ELSE F32DivBits(0, a.m, b.m, a.e - b.e)

----------------------------------------------------------------------------
(* sen5x.rs: the public operations.  s is the session, w and r what the    *)
(* transport answers to the write and to the read, rx what the receive     *)
(* buffer holds after the read.  Each yields the returned value, the bus   *)
(* traffic, the buffer and the session's flag after the call.              *)

Outcome(res, io, data, running) ==
    [ret |-> res, bus |-> io, buf |-> data, is_running |-> running]

\* start_measurement that sets the flag before looking at the write's result.
start_measurement_sets_first(s, w) ==
    LET wc == write_command(s.address, "StartMeasurement", w) IN
    Outcome(wc.res, wc.bus, <<>>, TRUE)

\* pub fn start_measurement(&mut self)
start_measurement(s, w) ==
    LET wc == write_command(s.address, "StartMeasurement", w) IN
    IF wc.res.kind # "Ok"
    THEN Outcome(wc.res, wc.bus, <<>>, s.is_running)
    ELSE Outcome(OkUnit, wc.bus, <<>>, TRUE)

\* pub fn reinit(&mut self)
reinit(s, w) ==
    LET wc == write_command(s.address, "Reinit", w) IN
    IF wc.res.kind # "Ok"
    THEN Outcome(wc.res, wc.bus, <<>>, s.is_running)
    ELSE Outcome(OkUnit, wc.bus, <<>>, s.is_running)

\* The serial number assembled from buf[0..6] regardless of the groups.
serial_from_first_six(b) ==
    Or64(Or64(Or64(Or64(Or64(
        Shl64(u64_from(At(b, 0)), 40),
        Shl64(u64_from(At(b, 1)), 32)),
        Shl64(u64_from(At(b, 2)), 24)),
        Shl64(u64_from(At(b, 3)), 16)),
        Shl64(u64_from(At(b, 4)), 8)),
        u64_from(At(b, 5)))

\* lines 67-72 of serial_number
serial_from_buf(b) ==
    Or64(Or64(Or64(Or64(Or64(
        Shl64(u64_from(At(b, 0)), 40),
        Shl64(u64_from(At(b, 1)), 32)),
        Shl64(u64_from(At(b, 3)), 24)),
        Shl64(u64_from(At(b, 4)), 16)),
        Shl64(u64_from(At(b, 6)), 8)),
        u64_from(At(b, 7)))

\* pub fn serial_number(&mut self) -> Result<u64, Error<E>>
serial_number(s, w, r, rx) ==
    LET c == delayed_read_cmd(s.address, "GetSerialNumber", Zeros(9), w, r, rx) IN
    IF c.res.kind # "Ok"
    THEN Outcome(c.res, c.bus, c.data, s.is_running)
    ELSE Outcome(Ok(serial_from_buf(c.data)), c.bus, c.data, s.is_running)

\* The loop of product_name and measurement_raw: the index of the first
\* group, from i on, whose checksum differs from the CRC of its data bytes;
\* n when there is none.
RECURSIVE FirstBadGroup(_, _, _)
FirstBadGroup(b, i, n) ==
    IF i >= n THEN n
    ELSE IF crc(<<At(b, 3 * i), At(b, 3 * i + 1)>>) # At(b, 3 * i + 2) THEN i
    ELSE FirstBadGroup(b, i + 1, n)

\* pub fn product_name(&mut self) -> Result<[u8; 32], Error<E>>
product_name(s, w, r, rx) ==
    LET c == delayed_read_cmd(s.address, "ReadProductName", Zeros(48), w, r, rx) IN
    IF c.res.kind # "Ok"
    THEN Outcome(c.res, c.bus, c.data, s.is_running)
    ELSE IF FirstBadGroup(c.data, 0, 16) < 16
    THEN Outcome(Err_Crc, c.bus, c.data, s.is_running)
    ELSE Outcome(Ok([j \in 1..32 |-> At(c.data, ((j - 1) \div 2) * 3 + ((j - 1) % 2))]),
                 c.bus, c.data, s.is_running)

\* pub fn read_firmware_version(&mut self) -> Result<u8, Error<E>>
read_firmware_version(s, w, r, rx) ==
    LET c == delayed_read_cmd(s.address, "ReadFirmwareVersion", Zeros(3), w, r, rx) IN
    IF c.res.kind # "Ok"
    THEN Outcome(c.res, c.bus, c.data, s.is_running)
    ELSE IF crc(<<At(c.data, 0), At(c.data, 1)>>) # At(c.data, 2)
    THEN Outcome(Err_Crc, c.bus, c.data, s.is_running)
    ELSE Outcome(Ok(At(c.data, 0)), c.bus, c.data, s.is_running)

\* values[value_idx] of measurement_raw
raw_word(b, i) == from_be_bytes(At(b, 3 * i), At(b, 3 * i + 1))

\* The struct of measurement_raw with humidity and temperature taken from
\* each other's word.
Sen5xDataRaw_swapped(b) ==
    [pm1_0 |-> raw_word(b, 0), pm2_5 |-> raw_word(b, 1),
     pm4_0 |-> raw_word(b, 2), pm10_0 |-> raw_word(b, 3),
     humidity |-> raw_word(b, 5), temperature |-> raw_word(b, 4),
     voc_index |-> raw_word(b, 6), nox_index |-> raw_word(b, 7)]

\* lines 124-133 of measurement_raw
Sen5xDataRaw(b) ==
    [pm1_0 |-> raw_word(b, 0), pm2_5 |-> raw_word(b, 1),
     pm4_0 |-> raw_word(b, 2), pm10_0 |-> raw_word(b, 3),
     humidity |-> raw_word(b, 4), temperature |-> raw_word(b, 5),
     voc_index |-> raw_word(b, 6), nox_index |-> raw_word(b, 7)]

\* pub fn measurement_raw(&mut self) -> Result<Sen5xDataRaw, Error<E>>
measurement_raw(s, w, r, rx) ==
    LET c == delayed_read_cmd(s.address, "ReadMeasurement", Zeros(24), w, r, rx) IN
    IF c.res.kind # "Ok"
    THEN Outcome(c.res, c.bus, c.data, s.is_running)
    ELSE IF FirstBadGroup(c.data, 0, 8) < 8
    THEN Outcome(Err_Crc, c.bus, c.data, s.is_running)
    ELSE Outcome(Ok(Sen5xDataRaw(c.data)), c.bus, c.data, s.is_running)

\* The struct of measurement with temperature divided by 100 and humidity
\* by 200.
Sen5xData_scales_swapped(data) ==
    [pm1_0 |-> F32Div(u16_as_f32(data.pm1_0), u16_as_f32(10)),
     pm2_5 |-> F32Div(u16_as_f32(data.pm2_5), u16_as_f32(10)),
     pm4_0 |-> F32Div(u16_as_f32(data.pm4_0), u16_as_f32(10)),
     pm10_0 |-> F32Div(u16_as_f32(data.pm10_0), u16_as_f32(10)),
     temperature |-> F32Div(u16_as_f32(data.temperature), u16_as_f32(100)),
     humidity |-> F32Div(u16_as_f32(data.humidity), u16_as_f32(200)),
     voc_index |-> F32Div(u16_as_f32(data.voc_index), u16_as_f32(10)),
     nox_index |-> F32Div(u16_as_f32(data.nox_index), u16_as_f32(10))]

\* lines 139-148 of measurement
Sen5xData(data) ==
    [pm1_0 |-> F32Div(u16_as_f32(data.pm1_0), u16_as_f32(10)),
     pm2_5 |-> F32Div(u16_as_f32(data.pm2_5), u16_as_f32(10)),
     pm4_0 |-> F32Div(u16_as_f32(data.pm4_0), u16_as_f32(10)),
     pm10_0 |-> F32Div(u16_as_f32(data.pm10_0), u16_as_f32(10)),
     temperature |-> F32Div(u16_as_f32(data.temperature), u16_as_f32(200)),
     humidity |-> F32Div(u16_as_f32(data.humidity), u16_as_f32(100)),
     voc_index |-> F32Div(u16_as_f32(data.voc_index), u16_as_f32(10)),
     nox_index |-> F32Div(u16_as_f32(data.nox_index), u16_as_f32(10))]

\* pub fn measurement(&mut self) -> Result<Sen5xData, Error<E>>
measurement(s, w, r, rx) ==
    LET m == measurement_raw(s, w, r, rx) IN
    IF m.ret.kind # "Ok" THEN m
    ELSE Outcome(Ok(Sen5xData(m.ret.val)), m.bus, m.buf, m.is_running)

\* data_ready_status with the mask 0xFFF.
status_ready_12_bits(status) == (status % 4096) # 0

\* (status & 0x7FF) != 0
status_ready(status) == (status % 2048) # 0

\* pub fn data_ready_status(&mut self) -> Result<bool, Error<E>>
data_ready_status(s, w, r, rx) ==
    LET c == delayed_read_cmd(s.address, "GetReadDataReadyStatus", Zeros(3), w, r, rx) IN
    IF c.res.kind # "Ok"
    THEN Outcome(c.res, c.bus, c.data, s.is_running)
    ELSE Outcome(Ok(status_ready(from_be_bytes(At(c.data, 0), At(c.data, 1)))),
                 c.bus, c.data, s.is_running)

----------------------------------------------------------------------------
(* The environment: what the transport answers and what the device sends.  *)
(* Checksum bytes are literal, as a device would send them.                *)

\* Groups with a matching checksum: 0x0000, 0x0001, 0x000F, 0xF800, 0xBEEF,
\* 0xFFFF.
GoodTriples ==
    {<<0, 0, 129>>, <<0, 1, 176>>, <<0, 15, 175>>, <<248, 0, 174>>,
     <<190, 239, 146>>, <<255, 255, 172>>}

\* Groups whose checksum does not match their data bytes.
BadTriples == {<<0, 0, 0>>, <<190, 239, 147>>, <<0, 1, 129>>}

\* One-word responses: the above and the status words 0x0400 and 0x0800.
OneWordFrames == GoodTriples \cup BadTriples \cup {<<4, 0, 2>>, <<8, 0, 182>>}

\* Groups put in place of one group of a longer response.
OverrideTriples ==
    {<<0, 1, 176>>, <<0, 15, 175>>, <<255, 255, 172>>, <<0, 0, 0>>, <<190, 239, 147>>}

\* The response of tests::test_get_serial_number.
SerialFixture == <<190, 239, 146, 190, 239, 146, 190, 239, 146>>

\* The response of tests::test_measurement.
MeasurementFixture ==
    <<0, 18, 160, 0, 22, 100, 0, 24, 123, 0, 26, 25,
      21, 138, 57, 17, 129, 80, 1, 104, 119, 0, 10, 90>>

\* "SEN55" padded with zero bytes to 32 characters, 16 groups.
ProductNameFixture ==
    <<83, 69, 131, 78, 53, 85, 53, 0, 68>> \o
    [i \in 1..39 |-> IF i % 3 = 0 THEN 129 ELSE 0]

\* The frame with group g (from 0) replaced by t.
WithGroup(frame, g, t) ==
    [i \in 1..Len(frame) |->
        IF (i - 1) \div 3 = g THEN t[((i - 1) % 3) + 1] ELSE frame[i]]

\* A fixture and every frame that differs from it in one group, taken from ts.
Variants(frame, ts) ==
    {frame} \cup
    {WithGroup(frame, g, t) : g \in 0..((Len(frame) \div 3) - 1), t \in ts}

\* The inputs <<w, r, rx>> of a reading call: the write fails (no read
\* happens); both transfers succeed and the buffer holds a frame; the read
\* fails, and the buffer is untouched or was filled before the error.
ReadInputs(frames, fixture) ==
    {<<e, "skipped", Zeros(Len(fixture))>> : e \in TransportErrors}
    \cup {<<"ok", "ok", f>> : f \in frames}
    \cup {<<"ok", e, f>> : e \in TransportErrors, f \in {Zeros(Len(fixture)), fixture}}

WriteInputs == {"ok"} \cup TransportErrors

SerialInputs == ReadInputs(Variants(SerialFixture, OverrideTriples), SerialFixture)
ProductNameInputs ==
    ReadInputs(Variants(ProductNameFixture, {<<255, 255, 172>>, <<190, 239, 147>>}),
               ProductNameFixture)
OneWordInputs == ReadInputs(OneWordFrames, <<0, 1, 176>>)
MeasurementInputs ==
    ReadInputs(Variants(MeasurementFixture, OverrideTriples), MeasurementFixture)

\* Addresses given to with_i2c_address.
CustomAddresses == {106}

----------------------------------------------------------------------------
(* The driver session as a state machine: one action per public method.    *)

Session == [is_running |-> is_running, address |-> address]

Init ==
    /\ \E s \in {new} \cup {with_i2c_address(a) : a \in CustomAddresses} :
        /\ is_running = s.is_running
        /\ address = s.address
    /\ bus = <<>>
    /\ buf = <<>>
    /\ op = "none"
    /\ ret = [kind |-> "none", val |-> <<>>]
    /\ wr = "none"
    /\ rd = "none"
    /\ calls = 0
    /\ crc_in = <<>>
    /\ crc_out = -1

\* A call of method name with the outcome o.
Call(name, o, w, r) ==
    /\ op' = name
    /\ ret' = o.ret
    /\ bus' = o.bus
    /\ buf' = o.buf
    /\ is_running' = o.is_running
    /\ wr' = w
    /\ rd' = r
    /\ calls' = calls + 1
    /\ UNCHANGED <<address, crc_in, crc_out>>

Call_start_measurement ==
    /\ calls < MaxCalls
    /\ \E w \in WriteInputs :
        \E o \in {start_measurement(Session, w)} :
            Call("start_measurement", o, w, "skipped")

Call_reinit ==
    /\ calls < MaxCalls
    /\ \E w \in WriteInputs :
        \E o \in {reinit(Session, w)} :
            Call("reinit", o, w, "skipped")

Call_serial_number ==
    /\ calls < MaxCalls
    /\ \E i \in SerialInputs :
        \E o \in {serial_number(Session, i[1], i[2], i[3])} :
            Call("serial_number", o, i[1], i[2])

Call_product_name ==
    /\ calls < MaxCalls
    /\ \E i \in ProductNameInputs :
        \E o \in {product_name(Session, i[1], i[2], i[3])} :
            Call("product_name", o, i[1], i[2])

Call_read_firmware_version ==
    /\ calls < MaxCalls
    /\ \E i \in OneWordInputs :
        \E o \in {read_firmware_version(Session, i[1], i[2], i[3])} :
            Call("read_firmware_version", o, i[1], i[2])

Call_data_ready_status ==
    /\ calls < MaxCalls
    /\ \E i \in OneWordInputs :
        \E o \in {data_ready_status(Session, i[1], i[2], i[3])} :
            Call("data_ready_status", o, i[1], i[2])

Call_measurement_raw ==
    /\ calls < MaxCalls
    /\ \E i \in MeasurementInputs :
        \E o \in {measurement_raw(Session, i[1], i[2], i[3])} :
            Call("measurement_raw", o, i[1], i[2])

Call_measurement ==
    /\ calls < MaxCalls
    /\ \E i \in MeasurementInputs :
        \E o \in {measurement(Session, i[1], i[2], i[3])} :
            Call("measurement", o, i[1], i[2])

Next ==
    \/ Call_start_measurement
    \/ Call_reinit
    \/ Call_serial_number
    \/ Call_product_name
    \/ Call_read_firmware_version
    \/ Call_data_ready_status
    \/ Call_measurement_raw
    \/ Call_measurement

Spec == Init /\ [][Next]_vars

----------------------------------------------------------------------------
(* The checksum on its own: crc() applied to every two-byte input.         *)

InitCrc ==
    /\ is_running = new.is_running
    /\ address = new.address
    /\ bus = <<>>
    /\ buf = <<>>
    /\ op = "none"
    /\ ret = [kind |-> "none", val |-> <<>>]
    /\ wr = "none"
    /\ rd = "none"
    /\ calls = 0
    /\ crc_in \in {<<a, b>> : a \in Byte, b \in Byte}
    /\ crc_out = -1

Call_crc ==
    /\ crc_out = -1
    /\ crc_out' = crc(crc_in)
    /\ UNCHANGED <<is_running, address, bus, buf, op, ret, wr, rd, calls, crc_in>>

NextCrc == Call_crc

SpecCrc == InitCrc /\ [][NextCrc]_vars

----------------------------------------------------------------------------
(* Reference definitions used by the properties below.                     *)

RECURSIVE Pow2(_)
Pow2(n) == IF n <= 0 THEN 1 ELSE 2 * Pow2(n - 1)

\* The 8 bits of a byte, most significant first.
Bits8(b) == [i \in 1..8 |-> (b \div Pow2(8 - i)) % 2]

\* x^8 + x^5 + x^4 + 1, the polynomial 0x31 with its leading term.
Poly31 == <<1, 0, 0, 1, 1, 0, 0, 0, 1>>

\* Remainder of the polynomial bits (coefficients in GF(2), highest degree
\* first) modulo Poly31: cancel the leading coefficients from position i on.
RECURSIVE PolyMod(_, _)
PolyMod(bits, i) ==
    IF i > Len(bits) - 8 THEN SubSeq(bits, Len(bits) - 7, Len(bits))
    ELSE IF bits[i] = 0 THEN PolyMod(bits, i + 1)
    ELSE PolyMod([j \in 1..Len(bits) |->
                    IF j >= i /\ j <= i + 8 THEN (bits[j] + Poly31[j - i + 1]) % 2
                    ELSE bits[j]] \o <<>>,
                 i + 1)

\* CRC-8, polynomial 0x31, initial value 0xFF, not reflected, no final XOR,
\* of the two bytes hi, lo: the message times x^8, its first byte
\* complemented by the initial value, reduced modulo the polynomial.
RefCrc(hi, lo) ==
    LET rem == PolyMod(Bits8(255 - hi) \o Bits8(lo) \o <<0, 0, 0, 0, 0, 0, 0, 0>>, 1)
    IN rem[1] * 128 + rem[2] * 64 + rem[3] * 32 + rem[4] * 16
       + rem[5] * 8 + rem[6] * 4 + rem[7] * 2 + rem[8]

\* Every group of a response carries the reference CRC of its data bytes.
RefValid(frame) ==
    \A g \in 0..((Len(frame) \div 3) - 1) :
        frame[3 * g + 3] = RefCrc(frame[3 * g + 1], frame[3 * g + 2])

\* The big-endian word of group g (from 0) of a response.
Word(frame, g) == frame[3 * g + 1] * 256 + frame[3 * g + 2]

ReadOps ==
    {"serial_number", "product_name", "read_firmware_version",
     "data_ready_status", "measurement_raw", "measurement"}

\* The command each public operation is specified to send, and the length
\* of the response it is specified to read.
CommandOf(o) ==
    CASE o = "start_measurement"     -> "StartMeasurement"
      [] o = "reinit"                -> "Reinit"
      [] o = "serial_number"         -> "GetSerialNumber"
      [] o = "product_name"          -> "ReadProductName"
      [] o = "read_firmware_version" -> "ReadFirmwareVersion"
      [] o = "data_ready_status"     -> "GetReadDataReadyStatus"
      [] o = "measurement_raw"       -> "ReadMeasurement"
      [] o = "measurement"           -> "ReadMeasurement"

ResponseLen(o) ==
    CASE o = "serial_number"         -> 9
      [] o = "product_name"          -> 48
      [] o = "read_firmware_version" -> 3
      [] o = "data_ready_status"     -> 3
      [] o = "measurement_raw"       -> 24
      [] o = "measurement"           -> 24

\* The three bus events of one command/read cycle of operation o at addr.
ExpectWrite(o, addr) ==
    <<"write", addr, as_tuple(CommandOf(o))[1] \div 256, as_tuple(CommandOf(o))[1] % 256>>
ExpectDelay(o) == <<"delay_ms", as_tuple(CommandOf(o))[2]>>
ExpectRead(o, addr) == <<"read", addr, ResponseLen(o)>>

----------------------------------------------------------------------------
(* f32 reference arithmetic for the scaling property.                      *)

RECURSIVE OddPart(_)
OddPart(n) == IF n % 2 = 0 THEN OddPart(n \div 2) ELSE n

RECURSIVE TwoExp(_)
TwoExp(n) == IF n % 2 = 0 THEN 1 + TwoExp(n \div 2) ELSE 0

RECURSIVE ShiftFor(_, _)
ShiftFor(p, d) == IF p \div Pow2(d) < 16777216 THEN d ELSE ShiftFor(p, d + 1)

\* f * s in f32, for an integer s = 2^a * o with o < 128: the exact product
\* rounded to 24 bits, nearest, ties to even.
F32MulInt(f, s) ==
    IF f.m = 0 THEN F32Zero
    ELSE LET p == f.m * OddPart(s)
             d == ShiftFor(p, 0)
         IN F32Round(p \div Pow2(d), p % Pow2(d), Pow2(d), f.e + TwoExp(s) + d)

\* f is the f32 nearest to the rational x / s (x a u16, s as above):
\* normalised, and within half a unit in the last place,
\* |m * 2^e - x / s| <= 2^e / 2, that is 2 * |m * o - x * 2^(-e - a)| <= o.
F32Nearest(f, x, s) ==
    IF x = 0 THEN f = F32Zero
    ELSE LET o == OddPart(s)
             k == (0 - f.e) - TwoExp(s)
         IN /\ f.m >= 8388608
            /\ f.m < 16777216
            /\ k >= 0
            /\ k <= 30
            /\ Pow2(k) <= 1073741824 \div x
            /\ 2 * (f.m * o - x * Pow2(k)) <= o
            /\ 2 * (x * Pow2(k) - f.m * o) <= o

\* The scale factor of each field of a measurement.
ScaleOf ==
    [pm1_0 |-> 10, pm2_5 |-> 10, pm4_0 |-> 10, pm10_0 |-> 10,
     humidity |-> 100, temperature |-> 200, voc_index |-> 10, nox_index |-> 10]

Fields == DOMAIN ScaleOf

\* The words of a 24-byte response by field name, in wire order.
RawOf(frame) ==
    [pm1_0 |-> Word(frame, 0), pm2_5 |-> Word(frame, 1),
     pm4_0 |-> Word(frame, 2), pm10_0 |-> Word(frame, 3),
     humidity |-> Word(frame, 4), temperature |-> Word(frame, 5),
     voc_index |-> Word(frame, 6), nox_index |-> Word(frame, 7)]

----------------------------------------------------------------------------
(* Properties.                                                             *)

\* C1: whenever the transport fails on the opcode write or on the response
\* read of a public operation, the operation returns Error::I2c carrying the
\* transport's error: never a checksum error, never success.
Claim_C1 ==
    /\ wr \in TransportErrors => (ret.kind = "I2c" /\ ret.val = <<wr>>)
    /\ rd \in TransportErrors => (ret.kind = "I2c" /\ ret.val = <<rd>>)

\* C2: with both bus transfers successful, a reading operation whose response
\* has a group with checksum # CRC(high, low) returns a checksum error and
\* no value.
Claim_C2 ==
    (op \in ReadOps /\ wr = "ok" /\ rd = "ok" /\ ~RefValid(buf))
        => ret.kind = "Crc"

\* C3 as stated: every call of a reading operation produces exactly one
\* write of the command's opcode to the session's address, then the
\* command's settle delay, then exactly one read from the same address.
Claim_C3 ==
    op \in ReadOps
        => bus = <<ExpectWrite(op, address), ExpectDelay(op), ExpectRead(op, address)>>

\* C3 amended: every call of a reading operation whose opcode write succeeds
\* produces exactly that write, then the command's settle delay, then exactly
\* one read of the response length from the same address, whatever the read
\* reports; a call whose opcode write fails produces that single write only.
Thm_C3 ==
    op \in ReadOps
        => IF wr = "ok"
           THEN bus = <<ExpectWrite(op, address), ExpectDelay(op), ExpectRead(op, address)>>
           ELSE bus = <<ExpectWrite(op, address)>>

\* A second reading call on a session with a custom address, its read
\* reporting an error after a successful write.
Wit_C3 ==
    /\ op = "serial_number" /\ calls = 2 /\ address = 106
    /\ wr = "ok" /\ rd = "Bus"
    /\ Len(bus) = 3

\* C4: measurement_raw, given successful transfers and a 24-byte response of
\* eight valid groups, succeeds with the big-endian words of groups 0..7 as
\* pm1_0, pm2_5, pm4_0, pm10_0, humidity, temperature, voc_index, nox_index.
Thm_C4 ==
    (op = "measurement_raw" /\ wr = "ok" /\ rd = "ok" /\ RefValid(buf))
        => (ret.kind = "Ok" /\ ret.val = RawOf(buf))

\* measurement_raw decoded the response of tests::test_measurement.
Wit_C4 ==
    /\ op = "measurement_raw" /\ wr = "ok" /\ rd = "ok"
    /\ buf = MeasurementFixture
    /\ ret.kind = "Ok"
    /\ ret.val.humidity = 5514 /\ ret.val.temperature = 4481

\* C5: serial_number, given successful transfers and a 9-byte response
\* b[0..8] of three valid groups, returns the 48-bit big-endian integer of
\* b0, b1, b3, b4, b6, b7 (the two top bytes of the u64 are zero, so it is
\* below 2^48); [0xBE,0xEF,0x92] x 3 gives 0xBEEFBEEFBEEF.
Thm_C5 ==
    (op = "serial_number" /\ wr = "ok" /\ rd = "ok" /\ RefValid(buf))
        => /\ ret.kind = "Ok"
           /\ ret.val = <<0, 0, buf[1], buf[2], buf[4], buf[5], buf[7], buf[8]>>
           /\ (buf = SerialFixture => ret.val = <<0, 0, 190, 239, 190, 239, 190, 239>>)

\* serial_number decoded a valid response whose six data bytes are not all
\* the same pair.
Wit_C5 ==
    /\ op = "serial_number" /\ wr = "ok" /\ rd = "ok"
    /\ buf = <<190, 239, 146, 0, 15, 175, 190, 239, 146>>
    /\ ret.kind = "Ok"
    /\ ret.val = <<0, 0, 190, 239, 0, 15, 190, 239>>

\* C6: data_ready_status, given successful transfers and a valid 3-byte
\* response, returns TRUE iff one of the low 11 bits of the big-endian status
\* word is set: 0x0000 gives FALSE, 0x0001 TRUE, 0xF800 FALSE.
Thm_C6 ==
    (op = "data_ready_status" /\ wr = "ok" /\ rd = "ok" /\ RefValid(buf))
        => /\ ret.kind = "Ok"
           /\ ret.val = (\E k \in 0..10 : (Word(buf, 0) \div Pow2(k)) % 2 = 1)
           /\ (Word(buf, 0) = 0 => ret.val = FALSE)
           /\ (Word(buf, 0) = 1 => ret.val = TRUE)
           /\ (Word(buf, 0) = 63488 => ret.val = FALSE)

\* data_ready_status answered FALSE for the status word 0xF800.
Wit_C6 ==
    /\ op = "data_ready_status" /\ wr = "ok" /\ rd = "ok"
    /\ buf = <<248, 0, 174>>
    /\ ret.kind = "Ok" /\ ret.val = FALSE

\* C7 as stated: whenever measurement succeeds, scale * field == raw word for
\* every field (the product taken in f32, as the result is).
Claim_C7 ==
    (op = "measurement" /\ ret.kind = "Ok")
        => \A f \in Fields :
              F32MulInt(ret.val[f], ScaleOf[f]) = u16_as_f32(RawOf(buf)[f])

\* C7 amended: measurement fails exactly when measurement_raw fails on the
\* same bus answers, with the same error; otherwise each field is the f32
\* nearest to (raw word / scale), scale being 10 for pm1_0, pm2_5, pm4_0,
\* pm10_0, voc_index, nox_index, 200 for temperature and 100 for humidity
\* (scale * field equals the raw word only up to that rounding).  The
\* response of tests::test_measurement gives pm2_5 = 2.2f32,
\* temperature = 22.405f32 and humidity = 55.14f32.
Thm_C7 ==
    op = "measurement"
        => LET m == measurement_raw(Session, wr, rd, buf).ret IN
           IF m.kind # "Ok" THEN ret = m
           ELSE /\ ret.kind = "Ok"
                /\ \A f \in Fields : F32Nearest(ret.val[f], m.val[f], ScaleOf[f])
                /\ (buf = MeasurementFixture =>
                       /\ ret.val.pm2_5 = [m |-> 9227469, e |-> -22]
                       /\ ret.val.temperature = [m |-> 11746673, e |-> -19]
                       /\ ret.val.humidity = [m |-> 14454620, e |-> -18])

\* measurement scaled the response of tests::test_measurement.
Wit_C7 ==
    /\ op = "measurement" /\ wr = "ok" /\ rd = "ok"
    /\ buf = MeasurementFixture
    /\ ret.kind = "Ok"
    /\ ret.val.temperature = [m |-> 11746673, e |-> -19]

\* C8: the running flag is FALSE after construction, which does no bus
\* traffic; it changes only to TRUE and only in a start_measurement call that
\* returns success; once TRUE it stays TRUE; reinit and the reading
\* operations leave it unchanged; no operation changes the address.
Step_C8 ==
    /\ address' = address
    /\ (is_running => is_running')
    /\ (is_running' # is_running
            => (is_running' /\ op' = "start_measurement" /\ ret'.kind = "Ok"))
    /\ (op' # "start_measurement" => is_running' = is_running)

Thm_C8 == (~is_running /\ bus = <<>> /\ calls = 0) /\ [][Step_C8]_vars

\* A started session on which a later reading call failed its checksum.
Wit_C8 ==
    /\ is_running /\ calls = 2
    /\ op = "measurement_raw" /\ ret.kind = "Crc"

\* C9: for every 2-byte input, crc returns the reference CRC-8 (polynomial
\* 0x31, initial value 0xFF, no reflection, no final XOR); crc([0xBE, 0xEF])
\* is 0x92.
Thm_C9 ==
    crc_out # -1
        => /\ crc_out = RefCrc(crc_in[1], crc_in[2])
           /\ (crc_in = <<190, 239>> => crc_out = 146)

\* crc was applied to the reference vector.
Wit_C9 == crc_in = <<190, 239>> /\ crc_out = 146

\* C10: a call whose opcode write fails returns the transport's error at
\* once: the bus sees that one write and nothing else (no settle delay, no
\* read, no second write), and the running flag keeps its previous value,
\* for start_measurement too.
Step_C10 ==
    (calls' = calls + 1 /\ wr' \in TransportErrors)
        => /\ ret' = Err_I2c(wr')
           /\ bus' = <<ExpectWrite(op', address)>>
           /\ is_running' = is_running

Thm_C10 == [][Step_C10]_vars

\* start_measurement failed its write on a session that was not running.
Wit_C10 ==
    /\ op = "start_measurement" /\ wr = "NoAcknowledge"
    /\ ret.kind = "I2c" /\ ~is_running

====
